---- MODULE Spec2Model ----
(***************************************************************************)
(* gobuddy: the deploy command (cmd/deploy.go) over the Buddy API client   *)
(* (internal/client.go), the stored configuration (cmd/config.go) and the  *)
(* git helper (internal/util/git.go).                                      *)
(*                                                                         *)
(* Go strings that the program lowercases or compares are sequences of     *)
(* ASCII codes, so that strings.ToLower and == are computed, not assumed.  *)
(* One run of deployCmd.Run is a process whose position is pc; every       *)
(* network call, prompt and sleep is one step.                             *)
(***************************************************************************)
EXTENDS Integers, Sequences, FiniteSets, TLC

\* ---------------------------------------------------------------- bounds
MaxPolls == 3        \* status fetches explored in one run
MaxList  == 2        \* longest list a list endpoint returns
MaxItems == 3        \* longest list of labels handed to a selector
MaxInput == 2        \* longest search text typed into a selector

\* ---------------------------------------------------------------- strings
Empty == <<>>                          \* the Go zero string ""

S_yes == <<121, 101, 115>>             \* "yes"
S_YES == <<89, 69, 83>>                \* "YES"
S_no  == <<110, 111>>                  \* "no"
S_NO  == <<78, 79>>                    \* "NO"
S_y   == <<121>>                       \* "y"

S_main == <<109, 97, 105, 110>>        \* "main"
S_Main == <<77, 97, 105, 110>>         \* "Main"
S_dev  == <<100, 101, 118>>            \* "dev"
S_CD   == <<67, 68>>                   \* "CD"
S_cd   == <<99, 100>>                  \* "cd"
S_web  == <<119, 101, 98>>             \* "web"
S_api  == <<97, 112, 105>>             \* "api"
S_7    == <<55>>                       \* "7"

K_token              == <<116, 111, 107, 101, 110>>
K_TOKEN              == <<84, 79, 75, 69, 78>>
K_workspace          == <<119, 111, 114, 107, 115, 112, 97, 99, 101>>
K_protected_pipeline == <<112, 114, 111, 116, 101, 99, 116, 101, 100, 95, 112, 105, 112, 101, 108, 105, 110, 101>>
K_protected_branch   == <<112, 114, 111, 116, 101, 99, 116, 101, 100, 95, 98, 114, 97, 110, 99, 104>>
K_protected          == <<112, 114, 111, 116, 101, 99, 116, 101, 100>>
S_alpha == <<97, 108, 112, 104, 97>>
S_beta  == <<98, 101, 116, 97>>
S_Beta  == <<66, 101, 116, 97>>
S_gamma == <<103, 97, 109, 109, 97>>
S_esc == <<97, 34, 92, 60>>            \* a"\< : text that JSON has to escape

\* strings.ToLower on ASCII text
ToLower(s) == [i \in 1..Len(s) |-> IF s[i] >= 65 /\ s[i] <= 90 THEN s[i] + 32 ELSE s[i]]

\* ---------------------------------------------------------------- inputs
\* what the user can type at a yes/no prompt before pressing enter
TypedInputs == {S_yes, S_YES, S_no, S_NO, S_y}

\* names the server, the working directory and git can deliver
ProjectNames == {S_web, S_api}
BranchNames  == {S_main, S_Main, S_dev}
PipelinePool == { [ID |-> 7, Name |-> S_CD],
                  [ID |-> 8, Name |-> S_cd],
                  [ID |-> 9, Name |-> S_cd] }      \* a second pipeline named "cd"
ExecutionIDs == {42, 43}

\* wire values of an execution status (README "Known Statuses")
Statuses == {"SUCCESSFUL", "FAILED", "INPROGRESS", "ENQUEUED",
             "SKIPPED", "TERMINATED", "NOT_EXECUTED", "INITIAL"}

\* what one client call can meet: the request cannot be built, client.Do
\* fails, or a response arrives with a status code and a body
HttpCodes == {200, 201, 404}
Exchanges ==
    { [kind |-> "build_error", code |-> 0, body |-> "none"],
      [kind |-> "transport_error", code |-> 0, body |-> "none"] } \cup
    { [kind |-> "response", code |-> c, body |-> b] :
        c \in HttpCodes, b \in {"valid", "garbled"} }
NoExchange == [op |-> "", kind |-> "none", code |-> 0, body |-> "none"]

\* non-empty lists of at most MaxList items, as a list endpoint returns them
ListsOf(S) == UNION { [1..n -> S] : n \in 1..MaxList }

\* cmd/config.go Config / Protected
Configs == { [Token |-> <<116>>, Workspace |-> <<119>>,
              Protected |-> [Pipeline |-> pp, Branch |-> pb]] :
             pp \in {Empty, S_CD}, pb \in {Empty, S_main} }
NoConfig == [Token |-> Empty, Workspace |-> Empty,
             Protected |-> [Pipeline |-> Empty, Branch |-> Empty]]
MissingFile == [exists |-> FALSE, content |-> <<>>]

\* ---------------------------------------------------------------- the configuration file
\* encoding/json, string values: hexadecimal digits of a \u escape
HexDigit(n) == IF n < 10 THEN 48 + n ELSE 87 + n
HexVal(c) == IF c >= 48 /\ c <= 57 THEN c - 48
             ELSE IF c >= 97 /\ c <= 102 THEN c - 87
             ELSE c - 55

\* encoding/json writes " and \ with a backslash, and control characters and
\* < > & as \u00XX (json.MarshalIndent escapes HTML characters)
EscapeByte(c) ==
    IF c = 34 \/ c = 92 THEN <<92, c>>
    ELSE IF c < 32 \/ c = 60 \/ c = 62 \/ c = 38
         THEN <<92, 117, 48, 48, HexDigit(c \div 16), HexDigit(c % 16)>>
    ELSE <<c>>

RECURSIVE EscapeAll(_)
EscapeAll(str) ==
    IF str = <<>> THEN <<>> ELSE EscapeByte(Head(str)) \o EscapeAll(Tail(str))

\* a Go string as a JSON string literal
EncodeString(str) == <<34>> \o EscapeAll(str) \o <<34>>

\* the UTF-8 bytes of a code point of the basic plane
UTF8(r) ==
    IF r < 128 THEN <<r>>
    ELSE IF r < 2048 THEN <<192 + (r \div 64), 128 + (r % 64)>>
    ELSE <<224 + (r \div 4096), 128 + ((r \div 64) % 64), 128 + (r % 64)>>

RECURSIVE Unescape(_)
Unescape(t) ==
    IF t = <<>> THEN <<>>
    ELSE IF t[1] = 92
         THEN IF t[2] = 117
              THEN UTF8(4096 * HexVal(t[3]) + 256 * HexVal(t[4])
                        + 16 * HexVal(t[5]) + HexVal(t[6]))
                   \o Unescape(SubSeq(t, 7, Len(t)))
              ELSE <<t[2]>> \o Unescape(SubSeq(t, 3, Len(t)))
         ELSE <<t[1]>> \o Unescape(Tail(t))

\* a JSON string literal back to a Go string
DecodeString(lit) == Unescape(SubSeq(lit, 2, Len(lit) - 1))

\* config.go:22-25  Protected: both members are omitempty
ProtectedMembers(p) ==
    (IF p.Pipeline # Empty THEN << <<"pipeline", EncodeString(p.Pipeline)>> >> ELSE <<>>)
    \o (IF p.Branch # Empty THEN << <<"branch", EncodeString(p.Branch)>> >> ELSE <<>>)

\* config.go:16-20, 88  json.MarshalIndent(config): the members of the document
\* in field order; omitempty does not drop the protected object, a struct
MarshalIndent(c) ==
    << <<"token", EncodeString(c.Token)>>,
       <<"workspace", EncodeString(c.Workspace)>>,
       <<"protected", ProtectedMembers(c.Protected)>> >>

HasMember(members, key) == \E i \in DOMAIN members : members[i][1] = key
Member(members, key) ==
    members[CHOOSE i \in DOMAIN members :
               /\ members[i][1] = key
               /\ \A j \in DOMAIN members : members[j][1] = key => j <= i][2]
StringMember(members, key) ==
    IF HasMember(members, key) THEN DecodeString(Member(members, key)) ELSE Empty

\* a Config struct without the Protected field, as it was before the
\* protected names were added
Unmarshal_NoProtected(doc) ==
    [Token |-> StringMember(doc, "token"),
     Workspace |-> StringMember(doc, "workspace"),
     Protected |-> [Pipeline |-> Empty, Branch |-> Empty]]

\* config.go:101, 108  json.Unmarshal(data, &config) into a zero Config
Unmarshal(doc) ==
    LET pm == IF HasMember(doc, "protected") THEN Member(doc, "protected") ELSE <<>>
    IN [Token |-> StringMember(doc, "token"),
        Workspace |-> StringMember(doc, "workspace"),
        Protected |-> [Pipeline |-> StringMember(pm, "pipeline"),
                       Branch |-> StringMember(pm, "branch")]]

\* config.go:100-114  loadConfig: the zero Config and an error for a missing file
loadConfig(file) ==
    IF ~file.exists
    THEN [config |-> NoConfig, err |-> "not_exist"]
    ELSE [config |-> Unmarshal(file.content), err |-> "nil"]

\* config.go:87-97  saveConfig: the whole document written to the file
saveConfig(c) == [exists |-> TRUE, content |-> MarshalIndent(c)]

NoPipeline  == [ID |-> 0, Name |-> Empty]     \* zero value of buddy.Pipeline
NoExecution == [ID |-> 0]                     \* no execution triggered yet

VARIABLES
    configFile,     \* ~/.gobuddy_config.json: whether it exists, and its content
    args,           \* positional arguments of the command (deploy, config set)
    branchFlag,     \* -b
    pipelineFlag,   \* -p
    currentFlag,    \* -c
    config,         \* Config loaded at the start of the run
    project,        \* var project string
    branch,         \* var branch string
    pipeline,       \* var pipeline buddy.Pipeline
    projects,       \* list held between FetchProjects and searchProject
    branches,       \* list held between FetchBranches and searchBranch
    pipelines,      \* list held between FetchPipelines and searchPipeline
    picked,         \* index prompt.Run returned in searchPipeline (from 1), a local
                    \* of that function: 0 again once the next step has run
    execution,      \* result of RunPipeline
    confirmAnswer,  \* text returned by the confirmation prompt (deploy, config reset)
    statusAnswer,   \* text returned by the latest checkStatus prompt
    lastStatus,     \* status returned by the latest CheckPipelineStatus
    trace,          \* calls made so far, in order: [op, ok]
    http,           \* the latest client call: its operation and what it met
    requests,       \* outbound HTTP requests issued so far (client.Do calls)
    calls,          \* client calls made so far, in order: [op, args]
    items,          \* promptui.Select Items: the labels of the open selector
    searchInput,    \* the search text typed into the selector
    shown,          \* indices of the items the selector lists
    pc              \* position in deployCmd.Run; "done" = return, "fatal" = log.Fatalf

vars == <<configFile, args, branchFlag, pipelineFlag, currentFlag, config,
          project, branch, pipeline, projects, branches, pipelines, picked,
          execution, confirmAnswer, statusAnswer, lastStatus, trace, http, requests,
          calls, items, searchInput, shown, pc>>

net == <<http, requests, calls>>

selector == <<items, searchInput, shown>>

flags == <<configFile, args, branchFlag, pipelineFlag, currentFlag, selector>>

\* ---------------------------------------------------------------- helpers
Ev(op, ok) == [op |-> op, ok |-> ok]
Log(op, ok) == trace' = Append(trace, Ev(op, ok))
Count(op) == Cardinality({ i \in DOMAIN trace : trace[i].op = op })
Called(op) == \E i \in DOMAIN trace : trace[i].op = op
Names(list) == [i \in DOMAIN list |-> list[i].Name]

Init ==
    /\ configFile \in {MissingFile} \cup { saveConfig(c) : c \in Configs }
    /\ args \in {<<>>, <<S_web>>}
    /\ branchFlag \in {Empty, S_main}
    /\ pipelineFlag \in {Empty, S_7}
    /\ currentFlag \in BOOLEAN
    /\ config = NoConfig
    /\ project = Empty
    /\ branch = Empty
    /\ pipeline = NoPipeline
    /\ projects = <<>>
    /\ branches = <<>>
    /\ pipelines = <<>>
    /\ picked = 0
    /\ execution = NoExecution
    /\ confirmAnswer = Empty
    /\ statusAnswer = Empty
    /\ lastStatus = ""
    /\ trace = <<>>
    /\ http = NoExchange
    /\ requests = 0
    /\ calls = <<>>
    /\ items = <<>>
    /\ searchInput = Empty
    /\ shown = {}
    /\ pc = "loadConfig"

\* ---------------------------------------------------------------- the API client
\* a retry of the request after a transport error
RequestsSent_Retry(x) ==
    IF x.kind = "build_error" THEN 0
    ELSE IF x.kind = "transport_error" THEN 2
    ELSE 1

\* client.go: every operation returns on a http.NewRequest error and otherwise
\* calls client.Do once (lines 34-44, 70-80, 110-120, 147-169, 214-224,
\* 251-261, 301-312, 333-343)
RequestsSent(x) == IF x.kind = "build_error" THEN 0 ELSE 1

\* the status check of RunPipeline left out
ClientSucceeds_AnyStatus(op, x) ==
    /\ x.kind = "response"
    /\ IF op = "RunPipeline" THEN TRUE ELSE ~(x.code # 200)
    /\ x.body = "valid"

\* client.go: the call returns a result when the request was built and sent,
\* the status is 200 (RunPipeline: 201 or 200, line 315) and the body decodes
ClientSucceeds(op, x) ==
    /\ x.kind = "response"
    /\ IF op = "RunPipeline" THEN ~(x.code # 201 /\ x.code # 200) ELSE ~(x.code # 200)
    /\ x.body = "valid"

\* one client call: its arguments, what it met, and the requests it issued
Send(op, a, x) ==
    /\ http' = [op |-> op, kind |-> x.kind, code |-> x.code, body |-> x.body]
    /\ requests' = requests + RequestsSent(x)
    /\ calls' = Append(calls, [op |-> op, args |-> a])

\* ---------------------------------------------------------------- decisions
\* the project argument preferred to the directory name
ProjectToLookUp_ArgFirst == IF Len(args) > 0 THEN args[1] ELSE project

\* deploy.go:53-56  if project == "" { project = args[0] }; FetchProjectByName(project)
ProjectToLookUp == IF project = Empty THEN args[1] ELSE project

\* deploy.go:72-75  if branch == "" { branch = branchFlag }; FetchBranchByName(project, branch)
BranchToLookUp == IF branch = Empty THEN branchFlag ELSE branch

\* deploy.go:134  apiClient.RunPipeline(project, pipeline.ID, branch)
RunArgs == [project |-> project, pipelineID |-> pipeline.ID, branch |-> branch]

\* the pipeline ID passed where the execution ID belongs
StatusArgs_PipelineForExecution ==
    [project |-> project, pipelineID |-> pipeline.ID, executionID |-> pipeline.ID]

\* deploy.go:150  apiClient.CheckPipelineStatus(project, pipeline.ID, execution.ID)
StatusArgs ==
    [project |-> project, pipelineID |-> pipeline.ID, executionID |-> execution.ID]

\* project lookup chosen by the argument alone, -c forgotten
UseProjectLookup_ArgOnly == Len(args) > 0

\* deploy.go:52  len(args) > 0 || (currentFlag && project != "")
UseProjectLookup == Len(args) > 0 \/ (currentFlag /\ project # Empty)

\* deploy.go:71  branchFlag != "" || currentFlag
UseBranchLookup == branchFlag # Empty \/ currentFlag

\* deploy.go:90  pipelineFlag != ""
UsePipelineLookup == pipelineFlag # Empty

\* the error of a lookup or list fetch dropped, the run going on
OnResolveError_Ignored(next) == next

\* deploy.go:34,46,58,65,77,84,93,101  err != nil -> log.Fatalf
OnResolveError(next) == "fatal"

\* deploy.go:98  the return that follows a successful FetchPipelineByID
AfterPipelineLookup == "done"

\* deploy.go:107-115  the protected pipeline / protected branch comparison
GuardRefuses(p, b, cfg) == p.Name = cfg.Protected.Pipeline \/ b = cfg.Protected.Branch

\* deploy.go:296-301, 315-320  Validate of the yes/no prompts
Validate(input) == ~(ToLower(input) # S_yes /\ ToLower(input) # S_no)

\* deploy.go:309, 329  strings.ToLower(result) == "yes"
IsYes(result) == ToLower(result) = S_yes

\* the result of confirmDeployment not looked at
AfterConfirm_Always(ok) == "run"

\* deploy.go:125-128  !confirmDeployment() -> return
AfterConfirm(ok) == IF ok THEN "run" ELSE "done"

\* the answer of checkStatus not looked at
AfterCheckStatus_Always(ok) == "fetch"

\* deploy.go:149, 172-175  if ok {fetch} else {break}
AfterCheckStatus(ok) == IF ok THEN "fetch" ELSE "done"

\* the failed status fetch logged and the loop going on
AfterStatusError_Continue == "ask"

\* deploy.go:151-154  err != nil -> log.Printf, break
AfterStatusError == "done"

\* a failed selection or confirmation prompt treated like a failed checkStatus
OnPromptError_Return == "done"

\* deploy.go:215-217, 249-251, 276-278, 305-307  err != nil -> log.Fatalf
OnPromptError == "fatal"

\* the break of the FAILED branch left out
AfterStatus_NoBreakOnFailed(status) ==
    IF status = "SUCCESSFUL" THEN "done"
    ELSE IF status = "INPROGRESS" THEN "sleep"
    ELSE "ask"

\* deploy.go:159-171  the if / else-if chain on *status
AfterStatus(status) ==
    IF status = "SUCCESSFUL" THEN "done"
    ELSE IF status = "INPROGRESS" THEN "sleep"
    ELSE IF status = "FAILED" THEN "done"
    ELSE "ask"

\* the trigger placed inside the loop: the wait followed by RunPipeline
AfterSleep_Rerun == "run"

\* the wait followed by the fetch, the prompt skipped
AfterSleep_Refetch == "fetch"

\* deploy.go:166  time.Sleep, then the next iteration of the for loop
AfterSleep == "ask"

\* ---------------------------------------------------------------- actions
\* what git and the working directory deliver under -c (util/git.go:47-60)
GitBranches == {S_dev}
DirNames    == {S_api}

\* deploy.go:33-36  loadConfig; a missing file is fatal
LoadConfig ==
    /\ pc = "loadConfig"
    /\ IF loadConfig(configFile).err # "nil"
       THEN /\ Log("loadConfig", FALSE)
            /\ pc' = "fatal"
            /\ UNCHANGED config
       ELSE /\ Log("loadConfig", TRUE)
            /\ config' = loadConfig(configFile).config
            /\ pc' = IF currentFlag THEN "current" ELSE "project"
    /\ UNCHANGED <<flags, picked, net, project, branch, pipeline, projects, branches, pipelines,
                   execution, confirmAnswer, statusAnswer, lastStatus>>

\* deploy.go:44-50  branch, project, err = util.GetBranchAndDirectory()
GetBranchAndDirectory ==
    /\ pc = "current"
    /\ \/ /\ Log("GetBranchAndDirectory", FALSE)
          /\ pc' = "fatal"
          /\ UNCHANGED <<project, branch>>
       \/ \E b \in GitBranches, d \in DirNames :
             /\ Log("GetBranchAndDirectory", TRUE)
             /\ branch' = b
             /\ project' = d
             /\ pc' = "project"
    /\ UNCHANGED <<flags, picked, net, config, pipeline, projects, branches, pipelines,
                   execution, confirmAnswer, statusAnswer, lastStatus>>

\* deploy.go:52-62  FetchProjectByName(project)
LookupProject ==
    /\ pc = "project"
    /\ UseProjectLookup
    /\ LET name == ProjectToLookUp
       IN \E x \in Exchanges :
             /\ Send("FetchProjectByName", [name |-> name], x)
             /\ IF ClientSucceeds("FetchProjectByName", x)
                THEN \E found \in ProjectNames :
                        /\ Log("FetchProjectByName", TRUE)
                        /\ project' = found
                        /\ pc' = "branch"
                ELSE /\ Log("FetchProjectByName", FALSE)
                     /\ pc' = OnResolveError("branch")
                     /\ project' = name
    /\ UNCHANGED <<flags, picked, config, branch, pipeline, projects, branches, pipelines,
                   execution, confirmAnswer, statusAnswer, lastStatus>>

\* deploy.go:63-67  FetchProjects()
ListProjects ==
    /\ pc = "project"
    /\ ~UseProjectLookup
    /\ \E x \in Exchanges :
          /\ Send("FetchProjects", [workspace |-> config.Workspace], x)
          /\ IF ClientSucceeds("FetchProjects", x)
             THEN \E list \in ListsOf(ProjectNames) :
                     /\ Log("FetchProjects", TRUE)
                     /\ projects' = list
                     /\ pc' = "selectProject"
             ELSE /\ Log("FetchProjects", FALSE)
                  /\ pc' = OnResolveError("selectProject")
                  /\ UNCHANGED projects
    /\ UNCHANGED <<flags, picked, config, project, branch, pipeline, branches, pipelines,
                   execution, confirmAnswer, statusAnswer, lastStatus>>

\* deploy.go:68, 189-220  searchProject: prompt.Run, then projectNames[i]
SearchProject ==
    /\ pc = "selectProject"
    /\ \/ /\ Log("searchProject", FALSE)
          /\ pc' = OnPromptError
          /\ UNCHANGED project
       \/ \E i \in DOMAIN projects :
             /\ Log("searchProject", TRUE)
             /\ project' = projects[i]
             /\ pc' = "branch"
    /\ projects' = <<>>
    /\ UNCHANGED <<flags, picked, net, config, branch, pipeline, branches, pipelines,
                   execution, confirmAnswer, statusAnswer, lastStatus>>

\* deploy.go:71-81  FetchBranchByName(project, branch)
LookupBranch ==
    /\ pc = "branch"
    /\ UseBranchLookup
    /\ LET name == BranchToLookUp
       IN \E x \in Exchanges :
             /\ Send("FetchBranchByName", [project |-> project, name |-> name], x)
             /\ IF ClientSucceeds("FetchBranchByName", x)
                THEN \E found \in BranchNames :
                        /\ Log("FetchBranchByName", TRUE)
                        /\ branch' = found
                        /\ pc' = "pipeline"
                ELSE /\ Log("FetchBranchByName", FALSE)
                     /\ pc' = OnResolveError("pipeline")
                     /\ branch' = name
    /\ UNCHANGED <<flags, picked, config, project, pipeline, projects, branches, pipelines,
                   execution, confirmAnswer, statusAnswer, lastStatus>>

\* deploy.go:82-86  FetchBranches(project); branch is "" whenever -c is off,
\* so the else-if of line 82 is taken on every run that reaches it
ListBranches ==
    /\ pc = "branch"
    /\ ~UseBranchLookup
    /\ branch = Empty
    /\ \E x \in Exchanges :
          /\ Send("FetchBranches", [project |-> project], x)
          /\ IF ClientSucceeds("FetchBranches", x)
             THEN \E list \in ListsOf(BranchNames) :
                     /\ Log("FetchBranches", TRUE)
                     /\ branches' = list
                     /\ pc' = "selectBranch"
             ELSE /\ Log("FetchBranches", FALSE)
                  /\ pc' = OnResolveError("selectBranch")
                  /\ UNCHANGED branches
    /\ UNCHANGED <<flags, picked, config, project, branch, pipeline, projects, pipelines,
                   execution, confirmAnswer, statusAnswer, lastStatus>>

\* deploy.go:87, 223-254  searchBranch: prompt.Run, then branchNames[i]
SearchBranch ==
    /\ pc = "selectBranch"
    /\ \/ /\ Log("searchBranch", FALSE)
          /\ pc' = OnPromptError
          /\ UNCHANGED branch
       \/ \E i \in DOMAIN branches :
             /\ Log("searchBranch", TRUE)
             /\ branch' = branches[i]
             /\ pc' = "pipeline"
    /\ branches' = <<>>
    /\ UNCHANGED <<flags, picked, net, config, project, pipeline, projects, pipelines,
                   execution, confirmAnswer, statusAnswer, lastStatus>>

\* deploy.go:90-98  FetchPipelineByID(project, pipelineFlag), then return
LookupPipeline ==
    /\ pc = "pipeline"
    /\ UsePipelineLookup
    /\ \E x \in Exchanges :
          /\ Send("FetchPipelineByID", [project |-> project, id |-> pipelineFlag], x)
          /\ IF ClientSucceeds("FetchPipelineByID", x)
             THEN \E found \in PipelinePool :
                     /\ Log("FetchPipelineByID", TRUE)
                     /\ pipeline' = found
                     /\ pc' = AfterPipelineLookup
             ELSE /\ Log("FetchPipelineByID", FALSE)
                  /\ pc' = OnResolveError("guard")
                  /\ UNCHANGED pipeline
    /\ UNCHANGED <<flags, picked, config, project, branch, projects, branches, pipelines,
                   execution, confirmAnswer, statusAnswer, lastStatus>>

\* deploy.go:99-103  FetchPipelines(project)
ListPipelines ==
    /\ pc = "pipeline"
    /\ ~UsePipelineLookup
    /\ \E x \in Exchanges :
          /\ Send("FetchPipelines", [project |-> project], x)
          /\ IF ClientSucceeds("FetchPipelines", x)
             THEN \E list \in ListsOf(PipelinePool) :
                     /\ Log("FetchPipelines", TRUE)
                     /\ pipelines' = list
                     /\ pc' = "selectPipeline"
             ELSE /\ Log("FetchPipelines", FALSE)
                  /\ pc' = OnResolveError("selectPipeline")
                  /\ UNCHANGED pipelines
    /\ UNCHANGED <<flags, picked, config, project, branch, pipeline, projects, branches,
                   execution, confirmAnswer, statusAnswer, lastStatus>>

\* the last pipeline of the list whose Name is name
filterPipelineByName_Last(list, name) ==
    list[CHOOSE i \in DOMAIN list :
            /\ list[i].Name = name
            /\ \A j \in DOMAIN list : list[j].Name = name => j <= i]

\* deploy.go:284-291  first pipeline of the list whose Name is name
filterPipelineByName(list, name) ==
    list[CHOOSE i \in DOMAIN list :
            /\ list[i].Name = name
            /\ \A j \in DOMAIN list : list[j].Name = name => i <= j]

\* deploy.go:104, 257-282  searchPipeline: prompt.Run, then filterPipelineByName
SearchPipeline ==
    /\ pc = "selectPipeline"
    /\ \/ /\ Log("searchPipeline", FALSE)
          /\ pc' = OnPromptError
          /\ UNCHANGED <<pipeline, picked>>
       \/ \E i \in DOMAIN pipelines :
             /\ Log("searchPipeline", TRUE)
             /\ picked' = i
             /\ pipeline' = filterPipelineByName(pipelines, Names(pipelines)[i])
             /\ pc' = "guard"
    /\ pipelines' = <<>>
    /\ UNCHANGED <<flags, net, config, project, branch, projects, branches,
                   execution, confirmAnswer, statusAnswer, lastStatus>>

\* deploy.go:107-115  protected pipeline / branch: log.Fatalf on a match
Guard ==
    /\ pc = "guard"
    /\ IF GuardRefuses(pipeline, branch, config)
       THEN /\ Log("guard", FALSE)
            /\ pc' = "fatal"
       ELSE /\ Log("guard", TRUE)
            /\ pc' = "confirm"
    /\ picked' = 0
    /\ UNCHANGED <<flags, net, config, project, branch, pipeline, projects, branches,
                   pipelines, execution, confirmAnswer, statusAnswer, lastStatus>>

\* deploy.go:125-128, 293-310  confirmDeployment
ConfirmDeployment ==
    /\ pc = "confirm"
    /\ \/ /\ Log("confirmDeployment", FALSE)
          /\ pc' = OnPromptError
          /\ UNCHANGED confirmAnswer
       \/ \E result \in TypedInputs :
             /\ Validate(result)
             /\ Log("confirmDeployment", TRUE)
             /\ confirmAnswer' = result
             /\ pc' = AfterConfirm(IsYes(result))
    /\ UNCHANGED <<flags, picked, net, config, project, branch, pipeline, projects, branches,
                   pipelines, execution, statusAnswer, lastStatus>>

\* deploy.go:134-138  RunPipeline(project, pipeline.ID, branch)
RunPipeline ==
    /\ pc = "run"
    /\ \E x \in Exchanges :
          /\ Send("RunPipeline", RunArgs, x)
          /\ IF ClientSucceeds("RunPipeline", x)
             THEN \E id \in ExecutionIDs :
                     /\ Log("RunPipeline", TRUE)
                     /\ execution' = [ID |-> id]
                     /\ pc' = "ask"
             ELSE /\ Log("RunPipeline", FALSE)
                  /\ pc' = "fatal"
                  /\ UNCHANGED execution
    /\ UNCHANGED <<flags, picked, config, project, branch, pipeline, projects, branches,
                   pipelines, confirmAnswer, statusAnswer, lastStatus>>

\* deploy.go:144-149, 172-175, 312-330  checkStatus: a failed prompt gives ok = false
CheckStatus ==
    /\ pc = "ask"
    /\ Count("CheckPipelineStatus") < MaxPolls
    /\ \/ /\ Log("checkStatus", FALSE)
          /\ pc' = AfterCheckStatus(FALSE)
          /\ UNCHANGED statusAnswer
       \/ \E result \in TypedInputs :
             /\ Validate(result)
             /\ Log("checkStatus", TRUE)
             /\ statusAnswer' = result
             /\ pc' = AfterCheckStatus(IsYes(result))
    /\ UNCHANGED <<flags, picked, net, config, project, branch, pipeline, projects, branches,
                   pipelines, execution, confirmAnswer, lastStatus>>

\* deploy.go:150-171  CheckPipelineStatus(project, pipeline.ID, execution.ID)
CheckPipelineStatus ==
    /\ pc = "fetch"
    /\ \E x \in Exchanges :
          /\ Send("CheckPipelineStatus", StatusArgs, x)
          /\ IF ClientSucceeds("CheckPipelineStatus", x)
             THEN \E status \in Statuses :
                     /\ Log("CheckPipelineStatus", TRUE)
                     /\ lastStatus' = status
                     /\ pc' = AfterStatus(status)
             ELSE /\ Log("CheckPipelineStatus", FALSE)
                  /\ pc' = AfterStatusError
                  /\ UNCHANGED lastStatus
    /\ UNCHANGED <<flags, picked, config, project, branch, pipeline, projects, branches,
                   pipelines, execution, confirmAnswer, statusAnswer>>

\* deploy.go:166  time.Sleep(7 * time.Second)
Sleep ==
    /\ pc = "sleep"
    /\ Log("Sleep", TRUE)
    /\ pc' = AfterSleep
    /\ UNCHANGED <<flags, picked, net, config, project, branch, pipeline, projects, branches,
                   pipelines, execution, confirmAnswer, statusAnswer, lastStatus>>

Next ==
    \/ LoadConfig
    \/ GetBranchAndDirectory
    \/ LookupProject
    \/ ListProjects
    \/ SearchProject
    \/ LookupBranch
    \/ ListBranches
    \/ SearchBranch
    \/ LookupPipeline
    \/ ListPipelines
    \/ SearchPipeline
    \/ Guard
    \/ ConfirmDeployment
    \/ RunPipeline
    \/ CheckStatus
    \/ CheckPipelineStatus
    \/ Sleep

Spec == Init /\ [][Next]_vars

TypeOK ==
    /\ pc \in {"loadConfig", "current", "project", "selectProject", "branch",
               "selectBranch", "pipeline", "selectPipeline", "guard", "confirm",
               "run", "ask", "fetch", "sleep", "done", "fatal"}
    /\ lastStatus \in Statuses \cup {""}
    /\ confirmAnswer \in TypedInputs \cup {Empty}
    /\ statusAnswer \in TypedInputs \cup {Empty}

\* ---------------------------------------------------------------- the config command
\* values a configuration field is given on the command line or at a prompt
CfgValues == {Empty, S_main, S_esc}

\* argument lists of "config set" with at least one argument
SetKeys == {K_token, K_TOKEN, K_workspace, K_protected_pipeline,
            K_protected_branch, K_protected}
SetArgLists ==
    { <<k>> : k \in SetKeys } \cup
    { <<k, v>> : k \in SetKeys, v \in CfgValues } \cup
    { <<K_token, S_esc, S_main>> }

\* everything the config commands leave alone
deployState == <<branchFlag, pipelineFlag, currentFlag, project, branch,
                 pipeline, projects, branches, pipelines, picked, execution,
                 statusAnswer, lastStatus, http, requests, calls, selector>>

\* config.go:157-167  the cases of the switch on the lowered key
Recognised(key) ==
    key \in {K_token, K_workspace, K_protected_pipeline, K_protected_branch}

SetField_BranchIntoPipeline(cfg, key, value) ==
    IF key = K_token THEN [cfg EXCEPT !.Token = value]
    ELSE IF key = K_workspace THEN [cfg EXCEPT !.Workspace = value]
    ELSE IF key = K_protected_pipeline THEN [cfg EXCEPT !.Protected.Pipeline = value]
    ELSE IF key = K_protected_branch THEN [cfg EXCEPT !.Protected.Pipeline = value]
    ELSE cfg

\* config.go:157-165  the assignment each case makes
SetField(cfg, key, value) ==
    IF key = K_token THEN [cfg EXCEPT !.Token = value]
    ELSE IF key = K_workspace THEN [cfg EXCEPT !.Workspace = value]
    ELSE IF key = K_protected_pipeline THEN [cfg EXCEPT !.Protected.Pipeline = value]
    ELSE IF key = K_protected_branch THEN [cfg EXCEPT !.Protected.Branch = value]
    ELSE cfg

\* config.go:124-129, 271-276  Validate of the yes/no prompts: exact match
ValidateExact(input) == ~(input # S_yes /\ input # S_no)

ResetConfirmed_Always(result) == TRUE

\* config.go:280  if result == "yes"
ResetConfirmed(result) == result = S_yes

\* the event a command logs for its loadConfig call
LoadEv == Ev("loadConfig", loadConfig(configFile).err = "nil")

\* config.go:189-261  setConfig: four prompts on top of the loaded Config, then
\* saveConfig; a failed prompt is fatal before anything is written
setConfig(pre) ==
    LET cfg == loadConfig(configFile).config IN
    \/ /\ trace' = pre \o <<LoadEv, Ev("setConfig", FALSE)>>
       /\ config' = cfg
       /\ pc' = "fatal"
       /\ UNCHANGED configFile
    \/ \E t \in CfgValues, w \in CfgValues, b \in CfgValues, p \in CfgValues :
          LET c2 == [Token |-> IF t # Empty THEN t ELSE cfg.Token,
                     Workspace |-> w,
                     Protected |-> [Pipeline |-> p, Branch |-> b]]
          IN /\ trace' = pre \o <<LoadEv, Ev("setConfig", TRUE),
                                  Ev("saveConfig", TRUE)>>
             /\ config' = c2
             /\ configFile' = saveConfig(c2)
             /\ pc' = "done"

\* config.go:146-186  "config set <key> <value>": one field of the loaded
\* Config changed and saved; an unknown key or a key without a value is fatal
ConfigSetArgs ==
    /\ pc \in {"shell", "done", "fatal"}
    /\ \E a \in SetArgLists :
          LET cfg == loadConfig(configFile).config
              key == ToLower(a[1])
              pre == <<Ev("configSetCmd", TRUE), LoadEv>>
          IN /\ args' = a
             /\ IF Len(a) >= 2 /\ Recognised(key)
                THEN /\ config' = SetField(cfg, key, a[2])
                     /\ configFile' = saveConfig(SetField(cfg, key, a[2]))
                     /\ trace' = pre \o <<Ev("saveConfig", TRUE)>>
                     /\ pc' = "done"
                ELSE /\ config' = cfg
                     /\ trace' = pre \o <<Ev("log.Fatalf", TRUE)>>
                     /\ pc' = "fatal"
                     /\ UNCHANGED configFile
    /\ UNCHANGED <<deployState, confirmAnswer>>

\* config.go:168-171  "config set" without arguments: the prompts of setConfig
ConfigSetPrompted ==
    /\ pc \in {"shell", "done", "fatal"}
    /\ args' = <<>>
    /\ setConfig(<<Ev("configSetCmd", TRUE), LoadEv>>)
    /\ UNCHANGED <<deployState, confirmAnswer>>

\* config.go:46-68, 117-143  "config get": the stored Config, or for a missing
\* file the offer to create one
ConfigGet ==
    /\ pc \in {"shell", "done", "fatal"}
    /\ args' = <<>>
    /\ LET pre == <<Ev("configGetCmd", TRUE), LoadEv>> IN
       IF loadConfig(configFile).err = "nil"
       THEN /\ config' = loadConfig(configFile).config
            /\ trace' = pre
            /\ pc' = "done"
            /\ UNCHANGED configFile
       ELSE \/ /\ trace' = pre \o <<Ev("handleMissingConfig", FALSE)>>
               /\ pc' = "fatal"
               /\ UNCHANGED <<config, configFile>>
            \/ \E result \in TypedInputs :
                  /\ ValidateExact(result)
                  /\ IF result = S_yes
                     THEN setConfig(pre \o <<Ev("handleMissingConfig", TRUE)>>)
                     ELSE /\ trace' = pre \o <<Ev("handleMissingConfig", TRUE)>>
                          /\ pc' = "done"
                          /\ UNCHANGED <<config, configFile>>
    /\ UNCHANGED <<deployState, confirmAnswer>>

\* config.go:71-79, 264-291  "config reset": os.Remove after an exact "yes"
ConfigReset ==
    /\ pc \in {"shell", "done", "fatal"}
    /\ args' = <<>>
    /\ LET pre == <<Ev("configResetCmd", TRUE)>> IN
       \/ /\ trace' = pre \o <<Ev("confirmReset", FALSE)>>
          /\ pc' = "fatal"
          /\ UNCHANGED <<configFile, confirmAnswer>>
       \/ \E result \in TypedInputs :
             /\ ValidateExact(result)
             /\ confirmAnswer' = result
             /\ IF ResetConfirmed(result)
                THEN IF configFile.exists
                     THEN /\ configFile' = MissingFile
                          /\ trace' = pre \o <<Ev("confirmReset", TRUE),
                                               Ev("os.Remove", TRUE)>>
                          /\ pc' = "done"
                     ELSE /\ trace' = pre \o <<Ev("confirmReset", TRUE),
                                               Ev("os.Remove", FALSE)>>
                          /\ pc' = "fatal"
                          /\ UNCHANGED configFile
                ELSE /\ trace' = pre \o <<Ev("confirmReset", TRUE)>>
                     /\ pc' = "done"
                     /\ UNCHANGED configFile
    /\ UNCHANGED <<deployState, config>>

\* a shell in which the config commands are run one after another, starting
\* without a configuration file
ConfigInit ==
    /\ configFile = MissingFile
    /\ args = <<>>
    /\ branchFlag = Empty
    /\ pipelineFlag = Empty
    /\ currentFlag = FALSE
    /\ config = NoConfig
    /\ project = Empty
    /\ branch = Empty
    /\ pipeline = NoPipeline
    /\ projects = <<>>
    /\ branches = <<>>
    /\ pipelines = <<>>
    /\ picked = 0
    /\ execution = NoExecution
    /\ confirmAnswer = Empty
    /\ statusAnswer = Empty
    /\ lastStatus = ""
    /\ trace = <<>>
    /\ http = NoExchange
    /\ requests = 0
    /\ calls = <<>>
    /\ items = <<>>
    /\ searchInput = Empty
    /\ shown = {}
    /\ pc = "shell"

ConfigNext ==
    \/ ConfigSetArgs
    \/ ConfigSetPrompted
    \/ ConfigGet
    \/ ConfigReset

ConfigSpec == ConfigInit /\ [][ConfigNext]_vars

\* ---------------------------------------------------------------- the selector
\* labels a selector is opened with, and the keys typed into its search line
LabelPool == {S_alpha, S_beta, S_Beta, S_gamma}
Keys == {97, 98, 101, 66, 122}             \* a b e B z
ItemLists == UNION { [1..n -> LabelPool] : n \in 1..MaxItems }

\* strings.Contains: sub occurs in str at some offset
Contains(str, sub) ==
    \E off \in 0..(Len(str) - Len(sub)) :
        SubSeq(str, off + 1, off + Len(sub)) = sub

containsIgnoreCase_InputAsTyped(str, substr) ==
    Contains(ToLower(str), substr)

\* deploy.go:332-335  containsIgnoreCase
containsIgnoreCase(str, substr) ==
    Contains(ToLower(str), ToLower(substr))

\* deploy.go:200-203, 234-237  Searcher: the items listed for a search text
Searcher(list, text) ==
    { index \in DOMAIN list : containsIgnoreCase(list[index], text) }

\* deploy.go:189-204  a selector opened in search mode with nothing typed
SelectorInit ==
    /\ configFile = MissingFile
    /\ args = <<>>
    /\ branchFlag = Empty
    /\ pipelineFlag = Empty
    /\ currentFlag = FALSE
    /\ config = NoConfig
    /\ project = Empty
    /\ branch = Empty
    /\ pipeline = NoPipeline
    /\ projects = <<>>
    /\ branches = <<>>
    /\ pipelines = <<>>
    /\ picked = 0
    /\ execution = NoExecution
    /\ confirmAnswer = Empty
    /\ statusAnswer = Empty
    /\ lastStatus = ""
    /\ trace = <<>>
    /\ http = NoExchange
    /\ requests = 0
    /\ calls = <<>>
    /\ items \in ItemLists
    /\ searchInput = Empty
    /\ shown = Searcher(items, Empty)
    /\ pc = "search"

\* everything the selector leaves alone
outsideSelector == <<configFile, args, branchFlag, pipelineFlag, currentFlag,
                     config, branch, pipeline, projects, branches, pipelines,
                     picked, execution, confirmAnswer, statusAnswer, lastStatus, http,
                     requests, calls>>

\* a key typed into the search line: the list is filtered by the new text
TypeKey ==
    /\ pc = "search"
    /\ Len(searchInput) < MaxInput
    /\ \E key \in Keys :
          /\ searchInput' = Append(searchInput, key)
          /\ shown' = Searcher(items, Append(searchInput, key))
    /\ UNCHANGED <<outsideSelector, items, project, trace, pc>>

\* backspace in the search line
Backspace ==
    /\ pc = "search"
    /\ searchInput # Empty
    /\ searchInput' = SubSeq(searchInput, 1, Len(searchInput) - 1)
    /\ shown' = Searcher(items, SubSeq(searchInput, 1, Len(searchInput) - 1))
    /\ UNCHANGED <<outsideSelector, items, project, trace, pc>>

\* deploy.go:213-219  enter on one of the listed items: prompt.Run returns its
\* index in Items
SelectItem ==
    /\ pc = "search"
    /\ \E i \in shown : project' = items[i]
    /\ Log("searchProject", TRUE)
    /\ pc' = "done"
    /\ UNCHANGED <<outsideSelector, selector>>

SelectorNext ==
    \/ TypeKey
    \/ Backspace
    \/ SelectItem

SelectorSpec == SelectorInit /\ [][SelectorNext]_vars

\* ---------------------------------------------------------------- vocabulary of the properties
LastEv == IF trace = <<>> THEN Ev("", TRUE) ELSE trace[Len(trace)]
Ended == pc \in {"done", "fatal"}
PipelineResolved ==
    \E i \in DOMAIN trace :
        trace[i].ok /\ trace[i].op \in {"FetchPipelineByID", "searchPipeline"}
ProtectedMatch ==
    pipeline.Name = config.Protected.Pipeline \/ branch = config.Protected.Branch
RefusedByGuard == pc = "fatal" /\ LastEv = Ev("guard", FALSE)
ResolveOps == {"FetchProjectByName", "FetchProjects", "FetchBranchByName",
               "FetchBranches", "FetchPipelineByID", "FetchPipelines"}
FinalStatuses == {"SUCCESSFUL", "FAILED"}
HandledStatuses == {"SUCCESSFUL", "FAILED", "INPROGRESS"}

\* C1: a run whose resolved pipeline name or branch name is the protected one
\* ends in the fatal error path and never calls RunPipeline.
C1_ProtectedRunIsFatal ==
    (PipelineResolved /\ ProtectedMatch) =>
        /\ ~Called("RunPipeline")
        /\ (Ended => pc = "fatal")

\* C2: after a successful -p lookup the run goes on to the guard (and from
\* there to the confirmation) instead of ending.
C2_FlagPipelineReachesGuard ==
    (pipelineFlag # Empty /\ PipelineResolved /\ Ended) => Called("guard")

\* C3 as stated: RunPipeline only after the answer "yes"; every other accepted
\* answer cancels (normal return, no trigger, no status call).
C3_OnlyLiteralYesTriggers ==
    /\ Called("RunPipeline") => confirmAnswer = S_yes
    /\ (confirmAnswer # Empty /\ confirmAnswer # S_yes) =>
          /\ pc = "done"
          /\ ~Called("RunPipeline")
          /\ ~Called("checkStatus")
          /\ ~Called("CheckPipelineStatus")

\* C3 amended: RunPipeline is called only after the confirmation prompt was
\* answered yes in any letter case; every accepted answer that is not yes in
\* some letter case cancels: normal return, no trigger, no status call.
C3_OnlyYesTriggers ==
    /\ Called("RunPipeline") => ToLower(confirmAnswer) = S_yes
    /\ (pc = "run" \/ Called("checkStatus")) => Called("confirmDeployment")
    /\ (confirmAnswer # Empty /\ ToLower(confirmAnswer) # S_yes) =>
          /\ pc = "done"
          /\ LastEv = Ev("confirmDeployment", TRUE)
          /\ ~Called("RunPipeline")
          /\ ~Called("checkStatus")
          /\ ~Called("CheckPipelineStatus")

C3_Witness ==
    /\ confirmAnswer = S_YES
    /\ LastEv = Ev("RunPipeline", TRUE)

\* C4: once a status fetch has returned SUCCESSFUL or FAILED the run is over
\* and that fetch is the last thing it did: no prompt, fetch or wait follows.
C4_FinalStatusStops ==
    lastStatus \in FinalStatuses =>
        /\ pc = "done"
        /\ LastEv = Ev("CheckPipelineStatus", TRUE)

C4_Witness ==
    /\ lastStatus = "SUCCESSFUL"
    /\ Count("CheckPipelineStatus") = 2
    /\ Count("Sleep") = 1
    /\ pc = "done"

\* C5: a fetched status other than SUCCESSFUL, FAILED and INPROGRESS ends the
\* loop instead of starting another iteration.
C5_OtherStatusStops ==
    (lastStatus # "" /\ lastStatus \notin HandledStatuses) => pc = "done"

\* C6 as stated: every status fetch directly follows its own check-status
\* prompt answered "yes"; an INPROGRESS result is followed by the wait and the
\* wait by a new prompt; the wait follows nothing but an INPROGRESS result.
C6_FetchFollowsLiteralYes ==
    /\ \A i \in DOMAIN trace :
          trace[i].op = "CheckPipelineStatus" =>
              i > 1 /\ trace[i - 1] = Ev("checkStatus", TRUE)
    /\ LastEv.op = "CheckPipelineStatus" => statusAnswer = S_yes
    /\ (LastEv = Ev("CheckPipelineStatus", TRUE) /\ lastStatus = "INPROGRESS") => pc = "sleep"
    /\ \A i \in DOMAIN trace :
          trace[i].op = "Sleep" =>
              /\ i > 1 /\ trace[i - 1] = Ev("CheckPipelineStatus", TRUE)
              /\ i < Len(trace) => trace[i + 1].op = "checkStatus"
    /\ LastEv.op = "Sleep" => (lastStatus = "INPROGRESS" /\ pc = "ask")

\* C6 amended: every status fetch directly follows its own check-status prompt
\* answered yes in any letter case; after an INPROGRESS result the loop waits
\* and then asks again before fetching; the wait happens only after an
\* INPROGRESS result.
C6_FetchFollowsYes ==
    /\ \A i \in DOMAIN trace :
          trace[i].op = "CheckPipelineStatus" =>
              i > 1 /\ trace[i - 1] = Ev("checkStatus", TRUE)
    /\ LastEv.op = "CheckPipelineStatus" => ToLower(statusAnswer) = S_yes
    /\ (LastEv = Ev("CheckPipelineStatus", TRUE) /\ lastStatus = "INPROGRESS") => pc = "sleep"
    /\ \A i \in DOMAIN trace :
          trace[i].op = "Sleep" =>
              /\ i > 1 /\ trace[i - 1] = Ev("CheckPipelineStatus", TRUE)
              /\ i < Len(trace) => trace[i + 1].op = "checkStatus"
    /\ LastEv.op = "Sleep" => (lastStatus = "INPROGRESS" /\ pc = "ask")

C6_Witness ==
    /\ Len(trace) >= 4
    /\ trace[Len(trace) - 3] = Ev("CheckPipelineStatus", TRUE)
    /\ trace[Len(trace) - 2] = Ev("Sleep", TRUE)
    /\ trace[Len(trace) - 1] = Ev("checkStatus", TRUE)
    /\ LastEv = Ev("CheckPipelineStatus", TRUE)
    /\ statusAnswer = S_YES

\* C7: after the answer "no" to the check-status prompt, at the first or a
\* later iteration, the run is over and the prompt is the last thing it did:
\* no network call follows.
C7_NoEndsLoop ==
    statusAnswer = S_no =>
        /\ pc = "done"
        /\ LastEv = Ev("checkStatus", TRUE)

C7_Witness ==
    /\ statusAnswer = S_no
    /\ Count("CheckPipelineStatus") >= 1
    /\ pc = "done"

\* C8: once the pipeline is resolved and the guard's place in the run is
\* passed, the run was refused exactly when the pipeline name or the branch
\* name is the protected one, and otherwise it reached the confirmation.
C8_RefusedIffProtected ==
    (PipelineResolved /\ pc # "guard") =>
        /\ RefusedByGuard <=> ProtectedMatch
        /\ ~ProtectedMatch => (pc = "confirm" \/ Called("confirmDeployment"))

\* position of pc in the run; the fatal path has no position
Rank ==
    CASE pc = "loadConfig" -> 0
      [] pc = "current" -> 1
      [] pc \in {"project", "selectProject"} -> 2
      [] pc \in {"branch", "selectBranch"} -> 3
      [] pc \in {"pipeline", "selectPipeline"} -> 4
      [] pc = "fatal" -> 0
      [] OTHER -> 5

\* one target's share of C9: with an explicit identifier one lookup and no
\* list or selector; without it one list fetch and one selector, no lookup
ResolvedBy(explicit, past, lookup, list, select) ==
    /\ explicit => (Count(list) = 0 /\ Count(select) = 0 /\ Count(lookup) <= 1)
    /\ ~explicit => (Count(lookup) = 0 /\ Count(list) <= 1 /\ Count(select) <= 1)
    /\ Count(select) <= Count(list)
    /\ (past /\ explicit) => Count(lookup) = 1
    /\ (past /\ ~explicit) => (Count(list) = 1 /\ Count(select) = 1)

\* C9: for project, branch and pipeline, a target with an explicit identifier
\* (argument, flag, or derived under -c) is resolved by one lookup and neither
\* the list endpoint nor the selector; any other target by one list fetch and
\* one selector run, and the selector's choice is an item of that list.
C9_Counts ==
    /\ ResolvedBy(Len(args) > 0 \/ currentFlag, Rank >= 3,
                  "FetchProjectByName", "FetchProjects", "searchProject")
    /\ ResolvedBy(branchFlag # Empty \/ currentFlag, Rank >= 4,
                  "FetchBranchByName", "FetchBranches", "searchBranch")
    /\ ResolvedBy(pipelineFlag # Empty, Rank >= 5,
                  "FetchPipelineByID", "FetchPipelines", "searchPipeline")
    /\ (pc = "branch" /\ LastEv = Ev("searchProject", TRUE)) =>
          trace[Len(trace) - 1] = Ev("FetchProjects", TRUE)
    /\ (pc = "pipeline" /\ LastEv = Ev("searchBranch", TRUE)) =>
          trace[Len(trace) - 1] = Ev("FetchBranches", TRUE)
    /\ (pc = "guard" /\ LastEv = Ev("searchPipeline", TRUE)) =>
          trace[Len(trace) - 1] = Ev("FetchPipelines", TRUE)

C9_Choice ==
    /\ (pc = "selectProject" /\ pc' = "branch") =>
          \E i \in DOMAIN projects : project' = projects[i]
    /\ (pc = "selectBranch" /\ pc' = "pipeline") =>
          \E i \in DOMAIN branches : branch' = branches[i]
    /\ (pc = "selectPipeline" /\ pc' = "guard") =>
          \E i \in DOMAIN pipelines : pipeline' = pipelines[i]

C9_ResolutionPaths == []C9_Counts /\ [][C9_Choice]_vars

C9_Witness ==
    /\ currentFlag /\ args = <<>> /\ branchFlag = Empty /\ pipelineFlag = Empty
    /\ pc = "guard"
    /\ Count("FetchProjectByName") = 1
    /\ Count("FetchBranchByName") = 1
    /\ Count("FetchPipelines") = 1
    /\ Count("searchPipeline") = 1

\* C10: a failed lookup or list fetch of the resolution is the last call of
\* the run, which ends in the fatal path: no retry, no later lookup, prompt,
\* trigger or status call.
C10_ResolveFailureIsFatal ==
    \A i \in DOMAIN trace :
        (trace[i].op \in ResolveOps /\ ~trace[i].ok) =>
            /\ i = Len(trace)
            /\ pc = "fatal"

C10_Witness ==
    /\ LastEv = Ev("FetchBranches", FALSE)
    /\ Called("searchProject")
    /\ pc = "fatal"

\* ---------------------------------------------------------------- vocabulary, continued
NetworkOps == {"FetchProjectByName", "FetchProjects", "FetchBranchByName",
               "FetchBranches", "FetchPipelineByID", "FetchPipelines",
               "RunPipeline", "CheckPipelineStatus"}
PromptOps  == {"searchProject", "searchBranch", "searchPipeline",
               "confirmDeployment", "checkStatus"}
NetworkCalls == Cardinality({ i \in DOMAIN trace : trace[i].op \in NetworkOps })
\* the server answered the -p lookup with 404: no pipeline has that ID
PipelineNotFound ==
    http.op = "FetchPipelineByID" /\ http.kind = "response" /\ http.code = 404
\* the latest call was a status fetch that met a transport error, a status
\* other than 200 or a body that does not decode
StatusFetchFailed ==
    /\ http.op = "CheckPipelineStatus"
    /\ \/ http.kind = "transport_error"
       \/ http.kind = "response" /\ (http.code # 200 \/ http.body # "valid")

\* C11 as stated: after the lookup of a nonexistent -p pipeline the run is in
\* the fatal path and no interactive prompt at all has been shown.
C11_NotFoundBeforeAnyPrompt ==
    PipelineNotFound =>
        /\ pc = "fatal"
        /\ \A i \in DOMAIN trace : trace[i].op \notin PromptOps

\* C11 amended: the lookup of a nonexistent -p pipeline ends the run in the
\* fatal path as its last call, before any pipeline-selection, confirmation or
\* check-status prompt; the project (branch) selection prompt has been shown
\* before it exactly when neither a project argument (a -b flag) nor -c was
\* given.
C11_NotFoundIsFatal ==
    PipelineNotFound =>
        /\ pc = "fatal"
        /\ LastEv = Ev("FetchPipelineByID", FALSE)
        /\ ~Called("searchPipeline")
        /\ ~Called("confirmDeployment")
        /\ ~Called("checkStatus")
        /\ Called("searchProject") <=> ~(Len(args) > 0 \/ currentFlag)
        /\ Called("searchBranch") <=> ~(branchFlag # Empty \/ currentFlag)

C11_Witness ==
    /\ PipelineNotFound
    /\ Called("searchProject")
    /\ ~Called("searchBranch")
    /\ pc = "fatal"

\* C12: a failed status fetch (transport error, non-200 status, undecodable
\* body) is the last thing the run does and the run returns normally, not
\* through the fatal path: no further prompt or network call.
C12_StatusErrorEndsCleanly ==
    /\ StatusFetchFailed =>
          /\ pc = "done"
          /\ LastEv = Ev("CheckPipelineStatus", FALSE)
    /\ \A i \in DOMAIN trace :
          trace[i] = Ev("CheckPipelineStatus", FALSE) => (i = Len(trace) /\ pc = "done")

C12_Witness ==
    /\ StatusFetchFailed
    /\ http.code = 404
    /\ Count("CheckPipelineStatus") = 2
    /\ pc = "done"

\* C13 as stated: after the failure of any prompt of the deploy flow the run
\* is in the fatal path.
C13_EveryPromptFailureFatal ==
    \A i \in DOMAIN trace :
        (trace[i].op \in PromptOps /\ ~trace[i].ok) => pc = "fatal"

\* C13 amended: a failed selection prompt (project, branch, pipeline) or
\* deployment confirmation ends the run in the fatal path; a failed
\* check-status prompt ends the loop and the run returns normally; in both
\* cases the failed prompt is the last thing the run does.
C13_PromptFailureEndsRun ==
    \A i \in DOMAIN trace :
        (trace[i].op \in PromptOps /\ ~trace[i].ok) =>
            /\ i = Len(trace)
            /\ trace[i].op = "checkStatus" => pc = "done"
            /\ trace[i].op # "checkStatus" => pc = "fatal"

C13_Witness ==
    /\ LastEv = Ev("checkStatus", FALSE)
    /\ Count("CheckPipelineStatus") >= 1
    /\ pc = "done"

\* C14: every client operation issues at most one outbound HTTP request per
\* call, also when the call fails: a step issues at most one request and only
\* as part of a client call, so requests never outnumber the calls.
C14_Inv ==
    /\ requests <= NetworkCalls
    /\ http.op # "" => http.op \in NetworkOps

C14_Step ==
    /\ requests' <= requests + 1
    /\ requests' # requests =>
          /\ Len(trace') = Len(trace) + 1
          /\ trace'[Len(trace')].op \in NetworkOps

C14_OneRequestPerCall == []C14_Inv /\ [][C14_Step]_vars

C14_Witness ==
    /\ http.op = "RunPipeline"
    /\ http.kind = "transport_error"
    /\ NetworkCalls = 4
    /\ requests = 4

\* C15: RunPipeline yields an Execution only for status 200 or 201 with a body
\* that decodes; for any other status there is no Execution and the run ends
\* in the fatal path without entering the status loop.
C15_RunNeeds200Or201 ==
    /\ execution # NoExecution =>
          \E i \in DOMAIN trace : trace[i] = Ev("RunPipeline", TRUE)
    /\ (http.op = "RunPipeline" /\ execution # NoExecution) =>
          /\ http.kind = "response"
          /\ http.code \in {200, 201}
          /\ http.body = "valid"
    /\ (http.op = "RunPipeline" /\ http.kind = "response" /\ http.code \notin {200, 201}) =>
          /\ execution = NoExecution
          /\ pc = "fatal"
          /\ LastEv = Ev("RunPipeline", FALSE)
          /\ ~Called("checkStatus")

C15_Witness ==
    /\ http.op = "RunPipeline"
    /\ http.code = 201
    /\ execution # NoExecution
    /\ pc = "ask"

\* C20: RunPipeline is called at most once in a run, whatever the answers,
\* statuses and errors of the status loop.
C20_AtMostOneTrigger == Count("RunPipeline") <= 1

C20_Witness ==
    /\ Count("RunPipeline") = 1
    /\ Count("CheckPipelineStatus") = 2
    /\ Count("Sleep") = 1
    /\ LastEv = Ev("CheckPipelineStatus", FALSE)

\* ---------------------------------------------------------------- the config commands
\* the command the trace t belongs to
CommandOf(t) == IF t = <<>> THEN "" ELSE t[1].op
ConfigKeys == {K_token, K_workspace, K_protected_pipeline, K_protected_branch}

\* C16: a configuration that has just been saved is read back by the next
\* "config get" with the same token, workspace and protected names, empty
\* protected names included.
C16_Inv ==
    LastEv = Ev("saveConfig", TRUE) =>
        /\ configFile.exists
        /\ loadConfig(configFile).err = "nil"
C16_Step ==
    (LastEv = Ev("saveConfig", TRUE) /\ trace' = <<Ev("configGetCmd", TRUE),
                                                   Ev("loadConfig", TRUE)>>)
        => /\ config'.Token = config.Token
           /\ config'.Workspace = config.Workspace
           /\ config'.Protected.Pipeline = config.Protected.Pipeline
           /\ config'.Protected.Branch = config.Protected.Branch
C17_Step ==
    (CommandOf(trace') = "configSetCmd" /\ Len(args') >= 1) =>
        LET before == loadConfig(configFile).config
            after == loadConfig(configFile').config
            key == ToLower(args'[1])
        IN IF Len(args') >= 2 /\ key \in ConfigKeys
           THEN /\ pc' = "done"
                /\ configFile'.exists
                /\ after.Token =
                       IF key = K_token THEN args'[2] ELSE before.Token
                /\ after.Workspace =
                       IF key = K_workspace THEN args'[2] ELSE before.Workspace
                /\ after.Protected.Pipeline =
                       IF key = K_protected_pipeline THEN args'[2]
                       ELSE before.Protected.Pipeline
                /\ after.Protected.Branch =
                       IF key = K_protected_branch THEN args'[2]
                       ELSE before.Protected.Branch
           ELSE /\ pc' = "fatal"
                /\ configFile' = configFile
C18_Inv ==
    LastEv = Ev("os.Remove", TRUE) =>
        /\ ~configFile.exists
        /\ loadConfig(configFile).err = "not_exist"
C18_Step ==
    /\ (configFile.exists /\ ~configFile'.exists) =>
           /\ CommandOf(trace') = "configResetCmd"
           /\ confirmAnswer' = S_yes
    /\ (/\ CommandOf(trace') = "configResetCmd"
        /\ Ev("confirmReset", TRUE) \in { trace'[i] : i \in DOMAIN trace' }
        /\ confirmAnswer' = S_no) =>
           /\ configFile' = configFile
           /\ pc' = "done"
    /\ LastEv = Ev("os.Remove", TRUE) =>
           \A i \in DOMAIN trace' :
               trace'[i].op = "loadConfig" => ~trace'[i].ok
C18_ResetOnlyOnYes == []C18_Inv /\ [][C18_Step]_vars
C18_Witness ==
    /\ LastEv = Ev("os.Remove", TRUE)
    /\ confirmAnswer = S_yes
    /\ ~configFile.exists
    /\ config # NoConfig

\* ---------------------------------------------------------------- the selector
Fold(c) == IF c >= 65 /\ c <= 90 THEN c + 32 ELSE c
\* label holds text at some position, letters compared without their case
HoldsIgnoringCase(label, text) ==
    \E off \in 0..(Len(label) - Len(text)) :
        \A k \in 1..Len(text) : Fold(label[off + k]) = Fold(text[k])

\* C19: the selector lists a label exactly when the label contains the search
\* text ignoring letter case; of alpha, beta, gamma the text "a" keeps all
\* three and "be" keeps only beta; the empty text keeps every label; the item
\* selected is one of those listed.
C19_FilterIsContainsIgnoreCase ==
    /\ shown = { i \in DOMAIN items : HoldsIgnoringCase(items[i], searchInput) }
    /\ (items = <<S_alpha, S_beta, S_gamma>> /\ searchInput = <<97>>) => shown = {1, 2, 3}
    /\ (items = <<S_alpha, S_beta, S_gamma>> /\ searchInput = <<98, 101>>) => shown = {2}
    /\ searchInput = Empty => shown = DOMAIN items
    /\ pc = "done" => \E i \in shown : project = items[i]
C19_Witness ==
    /\ items = <<S_alpha, S_Beta, S_gamma>>
    /\ searchInput = <<66, 101>>
    /\ shown = {2}
    /\ pc = "done"
    /\ project = S_Beta

\* ---------------------------------------------------------------- what the calls are made for
CallsOf(op) == { i \in DOMAIN calls : calls[i].op = op }

\* C21: every status fetch is made for the project and the pipeline ID that
\* RunPipeline was called with and for the execution ID that call returned, and
\* once RunPipeline has returned, the project, the pipeline and the execution
\* held by the run stay what they are.
C21_Inv ==
    \A i \in CallsOf("CheckPipelineStatus") :
        /\ Cardinality(CallsOf("RunPipeline")) = 1
        /\ \A r \in CallsOf("RunPipeline") :
              /\ r < i
              /\ calls[i].args.project = calls[r].args.project
              /\ calls[i].args.pipelineID = calls[r].args.pipelineID
        /\ Ev("RunPipeline", TRUE) \in { trace[k] : k \in DOMAIN trace }
        /\ calls[i].args.executionID = execution.ID
        /\ execution.ID \in ExecutionIDs
C21_Step ==
    Called("RunPipeline") =>
        /\ project' = project
        /\ pipeline' = pipeline
        /\ execution' = execution
C21_FetchesFollowTheRun == []C21_Inv /\ [][C21_Step]_vars
C21_Witness ==
    /\ Cardinality(CallsOf("CheckPipelineStatus")) = 3
    /\ \A i \in CallsOf("CheckPipelineStatus") :
          calls[i].args = [project |-> S_web, pipelineID |-> 8, executionID |-> 43]
    /\ lastStatus = "SUCCESSFUL"

\* C22: under -c the project looked up is the directory name and the branch
\* looked up is the git branch that GetBranchAndDirectory returned, whatever the
\* project argument and -b are, and neither list is fetched; the argument and
\* -b are the names looked up only in a run that holds no derived name.
C22_Inv ==
    /\ (currentFlag /\ pc \in {"project", "branch"}) =>
           /\ branch \in GitBranches
           /\ branch # Empty
    /\ (currentFlag /\ pc = "project") =>
           /\ project \in DirNames
           /\ project # Empty
    /\ currentFlag =>
           /\ \A i \in CallsOf("FetchProjectByName") : calls[i].args.name \in DirNames
           /\ \A i \in CallsOf("FetchBranchByName") : calls[i].args.name \in GitBranches
           /\ CallsOf("FetchProjects") = {}
           /\ CallsOf("FetchBranches") = {}
    /\ \A i \in CallsOf("FetchProjectByName") :
           (Len(args) > 0 /\ calls[i].args.name = args[1]) => ~currentFlag
    /\ \A i \in CallsOf("FetchBranchByName") :
           (calls[i].args.name = branchFlag) => ~currentFlag
C22_Step ==
    /\ (currentFlag /\ pc = "project") =>
           /\ Len(calls') = Len(calls) + 1
           /\ calls'[Len(calls')] =
                  [op |-> "FetchProjectByName", args |-> [name |-> project]]
    /\ (currentFlag /\ pc = "branch") =>
           /\ Len(calls') = Len(calls) + 1
           /\ calls'[Len(calls')].op = "FetchBranchByName"
           /\ calls'[Len(calls')].args.name = branch
C22_CurrentWins == []C22_Inv /\ [][C22_Step]_vars
C22_Witness ==
    /\ currentFlag
    /\ args = <<S_web>>
    /\ branchFlag = S_main
    /\ \E i \in CallsOf("FetchProjectByName") : calls[i].args.name = S_api
    /\ \E i \in CallsOf("FetchBranchByName") : calls[i].args.name = S_dev
    /\ pc = "pipeline"

\* position of the first item of list that is named as the item at position i
FirstNamedLike(list, i) ==
    CHOOSE j \in DOMAIN list :
        /\ list[j].Name = list[i].Name
        /\ \A k \in 1..(j - 1) : list[k].Name # list[i].Name
DistinctNames(list) ==
    \A i \in DOMAIN list, j \in DOMAIN list : list[i].Name = list[j].Name => i = j
AfterSelection == {"guard", "confirm", "run", "ask", "fetch", "sleep"}

\* C23: the pipeline selected interactively is the first one of the fetched
\* list named as the picked label; in a list of distinct names that is the item
\* at the picked position; the run keeps that pipeline, and RunPipeline is
\* called with its ID.
C23_Step ==
    /\ (pc = "selectPipeline" /\ pc' = "guard") =>
           /\ picked' \in DOMAIN pipelines
           /\ pipeline' = pipelines[FirstNamedLike(pipelines, picked')]
           /\ DistinctNames(pipelines) => pipeline' = pipelines[picked']
    /\ (pc \in AfterSelection /\ ~UsePipelineLookup) =>
           pipeline' = pipeline
    /\ (pc = "run" /\ ~UsePipelineLookup) =>
           /\ calls'[Len(calls')].op = "RunPipeline"
           /\ calls'[Len(calls')].args.pipelineID = pipeline.ID
C23_FirstByNameIsRun == [][C23_Step]_vars
C23_Witness ==
    /\ pc = "guard"
    /\ picked = 2
    /\ pipeline = [ID |-> 9, Name |-> S_cd]
    /\ LastEv = Ev("searchPipeline", TRUE)

====
